---- MODULE Spec2Model ----
(***************************************************************************)
(* OCR-based file renaming (rename_image.py).                              *)
(*                                                                         *)
(* Strings are sequences of characters, each character a one-element       *)
(* string, so that matching, translation and concatenation are computed    *)
(* position by position as the regular expressions and the string          *)
(* formatting of the program compute them.  A directory is a function      *)
(* from the file names present in it to the content of each file.          *)
(***************************************************************************)
EXTENDS Integers, Sequences, FiniteSets, TLC

VARIABLES
    \* process_project_folder
    pc, image_files, idx, success_count, fail_count,
    indir, outdir, errdir,
    matched, raised,
    \* get_unique_destination_path called on its own
    rpc, rdir, rbase, rext, rresult,
    \* find_pattern_in_text called on its own
    fpc, ftext, fresult,
    \* normalize_pattern called on its own
    npc, npattern, nresult, nresult2

pvars == <<pc, image_files, idx, success_count, fail_count,
           indir, outdir, errdir, matched, raised>>
rvars == <<rpc, rdir, rbase, rext, rresult>>
fvars == <<fpc, ftext, fresult>>
nvars == <<npc, npattern, nresult, nresult2>>
vars == <<pvars, rvars, fvars, nvars>>

----------------------------------------------------------------------------
(* Bounds of the model.                                                    *)

\* most files present in the input directory when a run starts
MaxFiles == 2
\* most files already present in the output directory when a run starts
MaxExisting == 2
\* most entries of the directory handed to the resolver on its own
MaxDirSize == 3
\* most tokens of a text handed to find_pattern_in_text on its own
MaxTokens == 3
\* most characters after the head of a string handed to normalize_pattern
MaxTail == 3

----------------------------------------------------------------------------
(* Characters.                                                             *)

UpperCase == {"A", "B", "C", "D", "E", "F", "G", "H", "I", "J", "K", "L", "M",
              "N", "O", "P", "Q", "R", "S", "T", "U", "V", "W", "X", "Y", "Z"}
LowerCase == {"a", "b", "c", "d", "e", "f", "g", "h", "i", "j", "k", "l", "m",
              "n", "o", "p", "q", "r", "s", "t", "u", "v", "w", "x", "y", "z"}
DigitChars == <<"0", "1", "2", "3", "4", "5", "6", "7", "8", "9">>
Digits == {DigitChars[i] : i \in DOMAIN DigitChars}

\* [A-Za-z0-9_]
AsciiWordChars == UpperCase \cup LowerCase \cup Digits \cup {"_"}
\* Letters outside ASCII, named by code point: e with acute accent, Thai ko kai.
UnicodeLetters == {"U+00E9", "U+0E01"}

\* the line feed, the one character "." does not match
NL == "\n"

\* the value Python's None is modelled by: no string is equal to it
None == <<"None">>

\* \w of a str pattern (re.UNICODE is the default for str patterns in
\* Python 3): any character that is alphanumeric in Unicode, and "_".
IsWordChar(c) == c \in AsciiWordChars \cup UnicodeLetters

\* the character class [\w_] of REGEX_PATTERN
InWordClass(c) == IsWordChar(c) \/ c = "_"

PREFIX == <<"M", "T", "_", "P", "M", "_">>
PREFIX_V == <<"M", "T", "_", "P", "M", "_", "V">>

\* s has the literal lit at position i
LiteralAt(s, lit, i) ==
    /\ i >= 1
    /\ i + Len(lit) - 1 <= Len(s)
    /\ \A k \in 1..Len(lit) : s[i + k - 1] = lit[k]

----------------------------------------------------------------------------
(* find_pattern_in_text: re.search(r"(MT_PM_[\w_]+)", text).               *)

RECURSIVE GreedyWordRun(_, _)
\* [\w_]+ is greedy and nothing follows it: the last position of the longest
\* run of class characters starting at j (j - 1 when text[j] is not one)
GreedyWordRun(text, j) ==
    IF j <= Len(text) /\ InWordClass(text[j])
    THEN GreedyWordRun(text, j + 1)
    ELSE j - 1

\* the end of the match of REGEX_PATTERN attempted at position i, 0 when the
\* attempt fails
MatchAt(text, i) ==
    IF LiteralAt(text, PREFIX, i)
    THEN LET e == GreedyWordRun(text, i + Len(PREFIX))
         IN IF e >= i + Len(PREFIX) THEN e ELSE 0
    ELSE 0

RECURSIVE SearchFrom(_, _)
\* re.search tries the start positions from left to right and stops at the
\* first one where the pattern matches
SearchFrom(text, i) ==
    IF i > Len(text) THEN None
    ELSE IF MatchAt(text, i) > 0 THEN SubSeq(text, i, MatchAt(text, i))
    ELSE SearchFrom(text, i + 1)

RECURSIVE SearchLastFrom(_, _)
SearchLastFrom(text, i) ==
    IF i < 1 THEN None
    ELSE IF MatchAt(text, i) > 0 THEN SubSeq(text, i, MatchAt(text, i))
    ELSE SearchLastFrom(text, i - 1)

\* a matcher that reports the last occurrence instead of the first
FindLastPatternInText(text) == SearchLastFrom(text, Len(text))

FindPatternInText(text) == SearchFrom(text, 1)

----------------------------------------------------------------------------
(* normalize_pattern.                                                      *)

CorrectionsFrom == <<"I", "i", "L", "l", "O", "o">>
CorrectionsTo == <<"1", "1", "1", "1", "0", "0">>

\* str.maketrans("IiLlOo", "111100") applied to one character
TranslateChar(c) ==
    IF \E k \in DOMAIN CorrectionsFrom : CorrectionsFrom[k] = c
    THEN CorrectionsTo[CHOOSE k \in DOMAIN CorrectionsFrom : CorrectionsFrom[k] = c]
    ELSE c

\* a table that sends "I" to "L" where the program's sends it to "1"
TranslateCharShifted(c) == IF c = "I" THEN "L" ELSE TranslateChar(c)

\* str.translate: every character is looked up once, in one pass
Translate(s) == [k \in 1..Len(s) |-> TranslateChar(s[k])]

TranslateShifted(s) == [k \in 1..Len(s) |-> TranslateCharShifted(s[k])]

RECURSIVE RunWhileNot(_, _, _)
\* the last position of the longest run starting at j of characters other
\* than c (j - 1 when s[j] = c or j is past the end)
RunWhileNot(s, c, j) ==
    IF j <= Len(s) /\ s[j] # c THEN RunWhileNot(s, c, j + 1) ELSE j - 1

\* re.match(r"(MT_PM_V)([^_]+)(_.*)", pattern): the end positions of the
\* three groups, or ok = FALSE.  [^_]+ takes every character up to the next
\* underscore, line feeds too, and no shorter run can be followed by "_";
\* ".*" stops before the first line feed (no DOTALL), and the match is not
\* anchored at the end of the string.
MatchVersion(pattern) ==
    IF ~ LiteralAt(pattern, PREFIX_V, 1)
    THEN [ok |-> FALSE, g1 |-> 0, g2 |-> 0, g3 |-> 0]
    ELSE LET g1 == Len(PREFIX_V)
             g2 == RunWhileNot(pattern, "_", g1 + 1)
         IN IF g2 > g1 /\ g2 + 1 <= Len(pattern) /\ pattern[g2 + 1] = "_"
            THEN [ok |-> TRUE, g1 |-> g1, g2 |-> g2,
                  g3 |-> RunWhileNot(pattern, NL, g2 + 2)]
            ELSE [ok |-> FALSE, g1 |-> 0, g2 |-> 0, g3 |-> 0]

\* normalize_pattern with the translation table shifted
NormalizePatternShifted(pattern) ==
    LET m == MatchVersion(pattern)
    IN IF m.ok
       THEN SubSeq(pattern, 1, m.g1)
            \o TranslateShifted(SubSeq(pattern, m.g1 + 1, m.g2))
            \o SubSeq(pattern, m.g2 + 1, m.g3)
       ELSE pattern

NormalizePattern(pattern) ==
    LET m == MatchVersion(pattern)
    IN IF m.ok
       THEN LET prefix == SubSeq(pattern, 1, m.g1)
                version_part == SubSeq(pattern, m.g1 + 1, m.g2)
                suffix == SubSeq(pattern, m.g2 + 1, m.g3)
            IN prefix \o Translate(version_part) \o suffix
       ELSE pattern

----------------------------------------------------------------------------
(* get_unique_destination_path.  A path of base_path is modelled by its    *)
(* file name; dir is the set of names at which os.path.exists is true.     *)

RECURSIVE Str(_)
\* str(n), the decimal digits of n >= 0
Str(n) ==
    IF n < Len(DigitChars) THEN <<DigitChars[n + 1]>>
    ELSE Str(n \div Len(DigitChars)) \o <<DigitChars[(n % Len(DigitChars)) + 1]>>

RECURSIVE ProbeLoop(_, _, _, _, _)
\* while os.path.exists(destination_path): next name, counter += 1
ProbeLoop(dir, new_name, extension, destination_path, counter) ==
    IF destination_path \in dir
    THEN ProbeLoop(dir, new_name, extension,
                   new_name \o <<"_">> \o Str(counter) \o extension,
                   counter + 1)
    ELSE destination_path

\* a resolver that does not probe: the plain name whatever the directory holds
GetPlainDestinationPath(dir, new_name, extension) == new_name \o extension

\* a resolver whose loop increments the counter before the name is built
GetSkippingDestinationPath(dir, new_name, extension) ==
    IF (new_name \o extension) \in dir
    THEN ProbeLoop(dir, new_name, extension,
                   new_name \o <<"_">> \o Str(2) \o extension, 3)
    ELSE new_name \o extension

GetUniqueDestinationPath(dir, new_name, extension) ==
    ProbeLoop(dir, new_name, extension, new_name \o extension, 1)

----------------------------------------------------------------------------
(* The file system and the helpers of process_project_folder.              *)

\* the directory f with name k holding content v (an existing k is replaced)
Put(f, k, v) == [x \in (DOMAIN f) \cup {k} |-> IF x = k THEN v ELSE f[x]]

\* the directory f without name k
Remove(f, k) == [x \in (DOMAIN f) \ {k} |-> f[x]]

\* contents: the image a source file was discovered with, a file left by an
\* earlier run, and what an interrupted copy leaves behind
Img(f) == <<"image", f>>
Old == <<"old", <<>>>>
Partial(f) == <<"partial", f>>

EndsWith(s, suffix) ==
    /\ Len(suffix) <= Len(s)
    /\ SubSeq(s, Len(s) - Len(suffix) + 1, Len(s)) = suffix

\* ALLOWED_EXTENSIONS, each pattern "*" followed by the suffix kept here
ALLOWED_EXTENSIONS == << <<".", "j", "p", "g">>,
                         <<".", "j", "p", "e", "g">>,
                         <<".", "p", "n", "g">> >>

\* glob.glob(os.path.join(input_path, "*" + suffix)) matches name: "*" matches
\* any run of characters, the comparison is case-sensitive, and a name
\* starting with "." is hidden from a pattern that does not start with "."
GlobMatch(name, suffix) ==
    /\ Len(name) >= 1
    /\ name[1] # "."
    /\ EndsWith(name, suffix)

\* the position of name's pattern in ALLOWED_EXTENSIONS
ExtRank(name) ==
    CHOOSE k \in DOMAIN ALLOWED_EXTENSIONS : GlobMatch(name, ALLOWED_EXTENSIONS[k])

\* find_image_files: the lists it can return for the input directory ind.
\* The patterns are globbed in the order of ALLOWED_EXTENSIONS; the order
\* within one pattern is the file system's.
FindImageFiles(ind) ==
    LET found == {f \in DOMAIN ind :
                    \E k \in DOMAIN ALLOWED_EXTENSIONS :
                        GlobMatch(f, ALLOWED_EXTENSIONS[k])}
        n == Cardinality(found)
    IN {s \in [1..n -> found] :
          /\ \A i, j \in 1..n : i # j => s[i] # s[j]
          /\ \A i, j \in 1..n : i < j => ExtRank(s[i]) <= ExtRank(s[j])}

RECURSIVE LastDot(_, _)
\* the last position <= i of "." in name, 0 when there is none
LastDot(name, i) ==
    IF i < 1 THEN 0 ELSE IF name[i] = "." THEN i ELSE LastDot(name, i - 1)

\* os.path.splitext(filename)[1]: from the last dot on, unless that dot is
\* one of the dots the name starts with
SplitExt(filename) ==
    LET d == LastDot(filename, Len(filename))
    IN IF d >= 1 /\ \E k \in 1..(d - 1) : filename[k] # "."
       THEN SubSeq(filename, d, Len(filename))
       ELSE <<>>

RECURSIVE Join(_, _)
\* sep.join(results)
Join(sep, results) ==
    IF Len(results) = 0 THEN <<>>
    ELSE IF Len(results) = 1 THEN results[1]
    ELSE results[1] \o sep \o Join(sep, Tail(results))

\* extract_text_from_image, given what reader.readtext returned
ExtractText(results) == Join(<<" ">>, results)

\* shutil.move(image_path, os.path.join(error_dir, filename)) that succeeds:
\* os.rename puts the source at the destination, replacing a file that is
\* there, and the source path is gone
MoveToError(w, filename) ==
    [w EXCEPT !.errd = Put(w.errd, filename, w.ind[filename]),
              !.ind = Remove(w.ind, filename)]

\* a handler that moves the file and does not count it
ExceptHandlerNoCount(w, filename, hmove) ==
    IF filename \in DOMAIN w.ind
    THEN IF hmove = "ok"
         THEN MoveToError(w, filename)
         ELSE [w EXCEPT !.pc = "aborted"]
    ELSE w

\* lines 153-158, the except clause: the move is not guarded, so an exception
\* it raises leaves the for loop and process_project_folder
ExceptHandler(w, filename, hmove) ==
    IF filename \in DOMAIN w.ind
    THEN IF hmove = "ok"
         THEN [MoveToError(w, filename) EXCEPT !.fc = @ + 1]
         ELSE [w EXCEPT !.pc = "aborted"]
    ELSE [w EXCEPT !.fc = @ + 1]

\* lines 121-158, one iteration of the for loop on filename.  ocr is what the
\* reader does (raises, or returns text fragments); copy, move and hmove are
\* what shutil.copy2 (line 139), shutil.move (line 149) and shutil.move in
\* the except clause (line 157) do when they are reached.
ProcessOne(w, filename, ocr, copy, move, hmove) ==
    IF ocr.raises
    THEN ExceptHandler(w, filename, hmove)
    ELSE LET extracted_text == ExtractText(ocr.results)
             initial_pattern == FindPatternInText(extracted_text)
         IN IF initial_pattern # None
            THEN LET new_name_base == NormalizePattern(initial_pattern)
                     original_extension == SplitExt(filename)
                     destination_path ==
                         GetUniqueDestinationPath(DOMAIN w.outd, new_name_base,
                                                  original_extension)
                 IN CASE copy = "ok" ->
                           [w EXCEPT !.outd = Put(w.outd, destination_path,
                                                  w.ind[filename]),
                                     !.sc = @ + 1]
                      [] copy = "fail" ->
                           ExceptHandler(w, filename, hmove)
                      [] copy = "partial" ->
                           ExceptHandler(
                               [w EXCEPT !.outd = Put(w.outd, destination_path,
                                                      Partial(filename))],
                               filename, hmove)
            ELSE IF move = "ok"
                 THEN [MoveToError(w, filename) EXCEPT !.fc = @ + 1]
                 ELSE ExceptHandler(w, filename, hmove)

----------------------------------------------------------------------------
(* The inputs the model draws from.                                        *)

\* names of files of the input directory: three images, a hidden file, an
\* upper-case extension and a file that is no image
InputNames == { <<"a", ".", "j", "p", "g">>,
                <<"b", ".", "j", "p", "g">>,
                <<"c", ".", "p", "n", "g">>,
                <<".", "h", ".", "j", "p", "g">>,
                <<"e", ".", "J", "P", "G">>,
                <<"n", ".", "t", "x", "t">> }

ID_V1_A == <<"M", "T", "_", "P", "M", "_", "V", "1", "_", "A">>

\* names an earlier run may have left in the output directory
ExistingOutputNames == { ID_V1_A \o <<".", "j", "p", "g">>,
                         ID_V1_A \o <<"_", "1", ".", "j", "p", "g">>,
                         ID_V1_A \o <<".", "p", "n", "g">> }

\* names an earlier run may have left in the error directory
ExistingErrorNames == { <<"a", ".", "j", "p", "g">>,
                        <<"z", ".", "j", "p", "g">> }

\* what the reader does with an image: raise, or return text fragments
\*   "x", "MT_PM_VI_A"   an identifier whose version segment is misread
\*   "MT_PM_V1_A_1"      an identifier that ends like a numbered copy
\*   "MT", "PM"          no identifier
OcrOutcomes ==
    { [raises |-> TRUE, results |-> <<>>],
      [raises |-> FALSE,
       results |-> << <<"x">>,
                      <<"M", "T", "_", "P", "M", "_", "V", "I", "_", "A">> >>],
      [raises |-> FALSE,
       results |-> << <<"M", "T", "_", "P", "M", "_", "V", "1", "_", "A", "_", "1">> >>],
      [raises |-> FALSE, results |-> << <<"M", "T">>, <<"P", "M">> >>] }

CopyOutcomes == {"ok", "fail", "partial"}
MoveOutcomes == {"ok", "fail"}

\* the sets of at most n of the names
SubsetsUpTo(names, n) == {x \in SUBSET names : Cardinality(x) <= n}

\* the directories of at most n of the names, each file left by an earlier run
OldDirectories(names, n) == { [f \in d |-> Old] : d \in SubsetsUpTo(names, n) }

\* the input directories of at most n of the names, each file an image
ImageDirectories(names, n) == { [f \in d |-> Img(f)] : d \in SubsetsUpTo(names, n) }

----------------------------------------------------------------------------
(* process_project_folder as a state machine.                              *)

IdleResolver ==
    rpc = "idle" /\ rdir = {} /\ rbase = <<>> /\ rext = <<>> /\ rresult = <<>>
IdleFinder == fpc = "idle" /\ ftext = <<>> /\ fresult = None
IdleNormalizer ==
    npc = "idle" /\ npattern = <<>> /\ nresult = <<>> /\ nresult2 = <<>>

Init ==
    /\ pc = "start"
    /\ image_files = <<>>
    /\ idx = 1
    /\ success_count = 0
    /\ fail_count = 0
    /\ indir \in ImageDirectories(InputNames, MaxFiles)
    /\ outdir \in OldDirectories(ExistingOutputNames, MaxExisting)
    /\ errdir \in OldDirectories(ExistingErrorNames, Cardinality(ExistingErrorNames))
    /\ matched = {}
    /\ raised = {}
    /\ IdleResolver /\ IdleFinder /\ IdleNormalizer

\* lines 108-118: discovery, the early return on an empty list, the counters
Start ==
    /\ pc = "start"
    /\ \E files \in FindImageFiles(indir) :
         /\ image_files' = files
         /\ pc' = IF Len(files) = 0 THEN "skipped" ELSE "loop"
    /\ idx' = 1
    /\ success_count' = 0
    /\ fail_count' = 0
    /\ UNCHANGED <<indir, outdir, errdir, matched, raised, rvars, fvars, nvars>>

\* lines 120-158: one iteration of the for loop
ProcessItem ==
    /\ pc = "loop"
    /\ idx <= Len(image_files)
    /\ \E ocr \in OcrOutcomes, copy \in CopyOutcomes,
          move \in MoveOutcomes, hmove \in MoveOutcomes :
         LET filename == image_files[idx]
             w == [ind |-> indir, outd |-> outdir, errd |-> errdir,
                   sc |-> success_count, fc |-> fail_count, pc |-> pc]
             w2 == ProcessOne(w, filename, ocr, copy, move, hmove)
         IN /\ indir' = w2.ind
            /\ outdir' = w2.outd
            /\ errdir' = w2.errd
            /\ success_count' = w2.sc
            /\ fail_count' = w2.fc
            /\ pc' = w2.pc
            /\ idx' = IF w2.pc = "aborted" THEN idx ELSE idx + 1
            /\ raised' = IF ocr.raises THEN raised \cup {filename} ELSE raised
            /\ matched' = IF /\ ~ ocr.raises
                             /\ FindPatternInText(ExtractText(ocr.results)) # None
                          THEN matched \cup {filename}
                          ELSE matched
    /\ UNCHANGED <<image_files, rvars, fvars, nvars>>

\* lines 160-162: the summary, once the list is exhausted
Report ==
    /\ pc = "loop"
    /\ idx > Len(image_files)
    /\ pc' = "done"
    /\ UNCHANGED <<image_files, idx, success_count, fail_count, indir, outdir,
                   errdir, matched, raised, rvars, fvars, nvars>>

Next == Start \/ ProcessItem \/ Report

Spec == Init /\ [][Next]_vars

----------------------------------------------------------------------------
(* get_unique_destination_path on its own: a caller resolves a name in a   *)
(* directory, creates the file there, and resolves again.                  *)

\* longest run base, base_1, ..., base_k a directory starts with
MaxRun == 10

JPG == <<".", "j", "p", "g">>
PNG == <<".", "p", "n", "g">>
BaseNames == { <<"B">>, <<"B", "_", "1">> }
Extensions == { JPG, PNG }

\* the k-th name the resolver tries
Candidate(new_name, extension, k) ==
    IF k = 0 THEN new_name \o extension
    ELSE new_name \o <<"_">> \o Str(k) \o extension

ResolverNames ==
    { Candidate(<<"B">>, e, k) : e \in Extensions, k \in 0..2 }
    \cup { Candidate(<<"B", "_", "1">>, JPG, 1), <<"n", ".", "t", "x", "t">> }

IdlePipeline ==
    /\ pc = "idle" /\ image_files = <<>> /\ idx = 1
    /\ success_count = 0 /\ fail_count = 0
    /\ indir = <<>> /\ outdir = <<>> /\ errdir = <<>>
    /\ matched = {} /\ raised = {}

InitResolve ==
    /\ rpc = "call"
    /\ rbase \in BaseNames
    /\ rext \in Extensions
    /\ \/ rdir \in SubsetsUpTo(ResolverNames, MaxDirSize)
       \/ \E n \in 0..MaxRun : rdir = {Candidate(<<"B">>, JPG, k) : k \in 0..n}
    /\ rresult = <<>>
    /\ IdlePipeline /\ IdleFinder /\ IdleNormalizer

ResolveCall ==
    /\ rpc = "call"
    /\ rresult' = GetUniqueDestinationPath(rdir, rbase, rext)
    /\ rpc' = "returned"
    /\ UNCHANGED <<rdir, rbase, rext, pvars, fvars, nvars>>

\* the caller creates a file at the path it was given (shutil.copy2, line 139)
ResolveCreate ==
    /\ rpc = "returned"
    /\ Cardinality(rdir) <= MaxRun + 1
    /\ rdir' = rdir \cup {rresult}
    /\ rpc' = "call"
    /\ UNCHANGED <<rbase, rext, rresult, pvars, fvars, nvars>>

NextResolve == ResolveCall \/ ResolveCreate

SpecResolve == InitResolve /\ [][NextResolve]_vars

----------------------------------------------------------------------------
(* find_pattern_in_text on its own.                                        *)

\* pieces the texts are built from: identifiers, the bare prefix, a broken
\* prefix, a separator, an underscore, a letter outside ASCII
TextTokens == { PREFIX \o <<"A">>,
                PREFIX \o <<"B", "2">>,
                PREFIX,
                <<"M", "T", "_">>,
                <<" ">>,
                <<"_">>,
                <<"U+00E9">>,
                <<"x">> }

RECURSIVE Concat(_)
Concat(tokens) ==
    IF Len(tokens) = 0 THEN <<>> ELSE Head(tokens) \o Concat(Tail(tokens))

Texts ==
    { Concat(t) : t \in UNION { [1..n -> TextTokens] : n \in 0..MaxTokens } }

InitFind ==
    /\ fpc = "call"
    /\ ftext \in Texts
    /\ fresult = None
    /\ IdlePipeline /\ IdleResolver /\ IdleNormalizer

FindCall ==
    /\ fpc = "call"
    /\ fresult' = FindPatternInText(ftext)
    /\ fpc' = "returned"
    /\ UNCHANGED <<ftext, pvars, rvars, nvars>>

NextFind == FindCall

SpecFind == InitFind /\ [][NextFind]_vars

----------------------------------------------------------------------------
(* normalize_pattern on its own, applied once and then to its own result.  *)

PatternHeads == { <<>>, PREFIX, PREFIX_V, <<"x">> \o PREFIX_V }
TailChars == {"I", "i", "L", "l", "O", "o", "A", "_", NL}

Patterns ==
    { h \o t : h \in PatternHeads,
               t \in UNION { [1..n -> TailChars] : n \in 0..MaxTail } }

InitNormalize ==
    /\ npc = "call"
    /\ npattern \in Patterns
    /\ nresult = <<>>
    /\ nresult2 = <<>>
    /\ IdlePipeline /\ IdleResolver /\ IdleFinder

NormalizeCall ==
    /\ npc = "call"
    /\ nresult' = NormalizePattern(npattern)
    /\ npc' = "once"
    /\ UNCHANGED <<npattern, nresult2, pvars, rvars, fvars>>

NormalizeAgain ==
    /\ npc = "once"
    /\ nresult2' = NormalizePattern(nresult)
    /\ npc' = "twice"
    /\ UNCHANGED <<npattern, nresult, pvars, rvars, fvars>>

NextNormalize == NormalizeCall \/ NormalizeAgain

SpecNormalize == InitNormalize /\ [][NextNormalize]_vars

----------------------------------------------------------------------------
(* Claims about process_project_folder, checked under Spec.                *)

\* the discovered items
Items == {image_files[k] : k \in 1..Len(image_files)}

\* the run is over: the summary was printed, or an exception left the loop
RunEnded == pc \in {"done", "aborted"}

\* a new file for f exists in the output directory and the source is in place
CopiedToOutput(f) ==
    /\ \E o \in DOMAIN outdir : outdir[o] = Img(f)
    /\ f \in DOMAIN indir

\* a file named as f exists in the error directory and the source is gone
MovedToError(f) ==
    /\ f \in DOMAIN errdir
    /\ f \notin DOMAIN indir

\* files that this run put into the output and into the error directory
NewOutputFiles == {o \in DOMAIN outdir : outdir[o] # Old}
NewErrorFiles == {e \in DOMAIN errdir : errdir[e] # Old}

\* C1: when the run ends, every discovered item is in exactly one of the end
\* states copied-to-output and moved-to-error, and with M items that have a
\* recognizable identifier out of N, M new files are in the output directory
\* and N - M in the error directory.
C1_EveryItemInOneEndState ==
    RunEnded =>
        /\ \A f \in Items : CopiedToOutput(f) # MovedToError(f)
        /\ Cardinality(NewOutputFiles) = Cardinality(matched)
        /\ Cardinality(NewErrorFiles) = Len(image_files) - Cardinality(matched)

\* C2: no step changes or removes an entry of the output directory, and a
\* step that counts a success creates exactly one entry, at a name at which
\* nothing existed before the step, holding the item being processed.
C2_PlacementCollisionFree ==
    [][ /\ \A o \in DOMAIN outdir :
             o \in DOMAIN outdir' /\ outdir'[o] = outdir[o]
        /\ success_count' = success_count + 1 =>
             \E o \in (DOMAIN outdir') \ (DOMAIN outdir) :
                /\ DOMAIN outdir' = (DOMAIN outdir) \cup {o}
                /\ outdir'[o] = Img(image_files[idx]) ]_vars

\* two items with the same identifier and extension are placed beside a file
\* of that name left by an earlier run
C2_Witness ==
    /\ pc = "done"
    /\ \E o0, o1, o2 \in DOMAIN outdir :
         /\ outdir[o0] = Old
         /\ outdir[o1] = Img(<<"a", ".", "j", "p", "g">>)
         /\ outdir[o2] = Img(<<"b", ".", "j", "p", "g">>)
         /\ o0 = ID_V1_A \o JPG
         /\ o1 = ID_V1_A \o <<"_", "1">> \o JPG
         /\ o2 = ID_V1_A \o <<"_", "2">> \o JPG

\* C3: no item's failure ends the batch: the run never ends by an exception
\* leaving the loop, with items unprocessed and no summary reported.
C3_BatchNeverAborts ==
    RunEnded => pc = "done" /\ idx > Len(image_files)

\* C4: every file present in the error directory before a step is present
\* with the same content after it.
C4_ErrorDirFilesKept ==
    [][ \A e \in DOMAIN errdir :
            e \in DOMAIN errdir' /\ errdir'[e] = errdir[e] ]_vars

\* C5: the step that processes an item whose OCR call raises leaves the item
\* in the error directory under its own name, no longer at its source path,
\* puts nothing into the output directory, and counts one failure and no
\* success.
C5_OcrErrorRoutedToErrorDir ==
    [][ \A f \in raised' \ raised :
            /\ f \in DOMAIN errdir' /\ errdir'[f] = Img(f)
            /\ f \notin DOMAIN indir'
            /\ outdir' = outdir
            /\ fail_count' = fail_count + 1
            /\ success_count' = success_count ]_vars

----------------------------------------------------------------------------
(* Claim about get_unique_destination_path, checked under SpecResolve.     *)

\* C7: the resolver returns base+ext when nothing exists there, and otherwise
\* base_k+ext for the smallest k >= 1 at which nothing exists; the path it
\* returns does not exist, and k is at most the number of entries.
C7_SmallestFreeCandidate ==
    rpc = "returned" =>
        /\ rresult \notin rdir
        /\ \E k \in 0..Cardinality(rdir) :
             /\ rresult = Candidate(rbase, rext, k)
             /\ \A j \in 0..(k - 1) : Candidate(rbase, rext, j) \in rdir

\* base, base_1 and base_2 exist and base_3 is returned
C7_Witness ==
    /\ rpc = "returned"
    /\ {Candidate(rbase, rext, k) : k \in 0..2} \subseteq rdir
    /\ rresult = rbase \o <<"_", "3">> \o rext

----------------------------------------------------------------------------
(* Claim about find_pattern_in_text, checked under SpecFind.               *)

\* positions of text where the prefix is followed by a character of class
Occurrences(text, class) ==
    {i \in 1..Len(text) :
        /\ LiteralAt(text, PREFIX, i)
        /\ i + Len(PREFIX) <= Len(text)
        /\ text[i + Len(PREFIX)] \in class}

\* the leftmost occurrence, extended to the longest run of class characters
LeftmostLongest(text, class) ==
    IF Occurrences(text, class) = {} THEN None
    ELSE LET i == CHOOSE x \in Occurrences(text, class) :
                      \A y \in Occurrences(text, class) : x <= y
             e == CHOOSE x \in (i + Len(PREFIX))..Len(text) :
                      /\ \A k \in (i + Len(PREFIX))..x : text[k] \in class
                      /\ x = Len(text) \/ text[x + 1] \notin class
         IN SubSeq(text, i, e)

\* C8 as stated: the result is the leftmost MT_PM_ followed by the longest
\* run of characters of [A-Za-z0-9_], and None exactly when there is none.
C8_LeftmostAsciiMatch ==
    fpc = "returned" => fresult = LeftmostLongest(ftext, AsciiWordChars)

\* C8: the same with the word characters of Python's \w on str: letters and
\* digits of any script, and the underscore.
C8_LeftmostWordMatch ==
    fpc = "returned" =>
        fresult = LeftmostLongest(ftext, AsciiWordChars \cup UnicodeLetters)

\* a text with two occurrences, the first of them returned
C8_Witness ==
    /\ fpc = "returned"
    /\ Cardinality(Occurrences(ftext, AsciiWordChars \cup UnicodeLetters)) >= 2
    /\ fresult = PREFIX \o <<"A">>
    /\ ftext # fresult

----------------------------------------------------------------------------
(* Claims about normalize_pattern, checked under SpecNormalize.            *)

\* the position of the underscore that ends the version segment of s, 0 when
\* s is not MT_PM_V + non-empty segment without underscore + "_" + remainder
VersionEnd(s) ==
    IF /\ LiteralAt(s, PREFIX_V, 1)
       /\ \E u \in (Len(PREFIX_V) + 2)..Len(s) :
            /\ s[u] = "_"
            /\ \A k \in (Len(PREFIX_V) + 1)..(u - 1) : s[k] # "_"
    THEN CHOOSE u \in (Len(PREFIX_V) + 2)..Len(s) :
            /\ s[u] = "_"
            /\ \A k \in (Len(PREFIX_V) + 1)..(u - 1) : s[k] # "_"
    ELSE 0

Corrected(c) ==
    IF c \in {"I", "i", "L", "l"} THEN "1"
    ELSE IF c \in {"O", "o"} THEN "0"
    ELSE c

\* C9: for an input with the three-part structure the output has the length
\* of the input, equals it outside the version segment and holds the
\* corrected character at every position inside; any other input is returned
\* as it is.
C9_OnlyVersionSegmentChanges ==
    npc \in {"once", "twice"} =>
        IF VersionEnd(npattern) > 0
        THEN /\ Len(nresult) = Len(npattern)
             /\ \A k \in 1..Len(npattern) :
                  nresult[k] = IF k > Len(PREFIX_V) /\ k < VersionEnd(npattern)
                               THEN Corrected(npattern[k])
                               ELSE npattern[k]
        ELSE nresult = npattern

\* C10: normalizing a normalized string gives the same string.
C10_Idempotent ==
    npc = "twice" => nresult2 = nresult

\* a string that the first application changed was normalized twice
C10_Witness ==
    /\ npc = "twice"
    /\ nresult # npattern
    /\ nresult2 = nresult

====
